---------------------------- MODULE Spec2Model ----------------------------
(***************************************************************************)
(* A model of the expense pipeline of family_expense_report:               *)
(*   app/rules_engine.py  RulesEngine (exclusions, custom rules, category  *)
(*                        mapping, merchant grouping)                      *)
(*   app/processor.py     ExpenseProcessor.process_data and                *)
(*                        _add_derived_fields                              *)
(*   app/data_loaders.py  load_all_data and the loaders' _load_csv_files   *)
(*                                                                         *)
(* A DataFrame is a record [columns, rows]: the set of column names and    *)
(* the sequence of rows, each row a function from the column names to the  *)
(* cell values.  Every frame the engine sees carries a RangeIndex (the     *)
(* loader and apply_exclusions reset it), so a row's label is its position *)
(* and boolean masks are sequences of BOOLEAN of the same length.          *)
(*                                                                         *)
(* Text that is only compared for equality (source, type, category) is a   *)
(* TLA+ string.  Text that is searched (merchant, patterns, group names)   *)
(* is a sequence of one-character strings.  Amounts are integers (cents).  *)
(* A configuration dict is a function whose DOMAIN is the set of keys that *)
(* are present; the empty dict is << >>.                                   *)
(***************************************************************************)
EXTENDS Integers, Sequences, FiniteSets, TLC

VARIABLES
    df,               \* the working DataFrame of the call in progress
    pc,               \* position in process_data: the stage to run next
    exclusions,       \* RulesEngine.exclusions      (exclusions.yaml)
    custom_rules,     \* RulesEngine.custom_rules    (rules.yaml)
    category_mapping, \* RulesEngine.category_mapping (category_mapping.yaml)
    report_config,    \* ExpenseProcessor.report_config (report_config.yaml)
    out,              \* what has been printed so far, in order
    saved,            \* the frames written to processed_transactions.csv
    folders,          \* the state of each loader's folder under the data folder
    input,            \* history: the DataFrame handed to the first call
    calls             \* history: <<stage, argument, result>> of each stage run

vars == <<df, pc, exclusions, custom_rules, category_mapping, report_config,
          folders, out, saved, input, calls>>

\* What a run only reads: the four configurations and the data folder.
config_vars == <<exclusions, custom_rules, category_mapping, report_config, folders>>

-----------------------------------------------------------------------------
(* Bounds of the model *)

MaxRows == 2
MaxExclusions == 2
MaxRules == 2
MaxMappings == 2
MaxGroups == 2
MaxAccountGroups == 2

-----------------------------------------------------------------------------
(* Cell values *)

\* pd.NA / NaN in a column of equality-compared text
NA == "<NA>"

\* NaN in the merchant column (a sequence, so that it compares with text)
NaN == <<"<NaN>">>

\* dict.get(key, default)
Get(d, key, default) == IF key \in DOMAIN d THEN d[key] ELSE default

\* Series == scalar on an object column: a missing cell compares False
SeriesEq(cell, value) == cell # NA /\ cell = value

\* re.IGNORECASE on the letters of the model's alphabet
Lower(c) == IF c = "A" THEN "a" ELSE IF c = "B" THEN "b" ELSE c

\* One pattern character against one text character under re.IGNORECASE:
\* "." is the regular-expression wildcard, every other character of the
\* model's alphabet is a literal.
ReCharMatch(p, c) == p = "." \/ Lower(p) = Lower(c)

\* The compiled pattern matches the text starting at position i.
ReMatchAt(pat, text, i) ==
    /\ i + Len(pat) - 1 <= Len(text)
    /\ \A j \in 1..Len(pat) : ReCharMatch(pat[j], text[i + j - 1])

\* Series.str.contains(pat, case=False, na=False) on one cell: regex=True is
\* the default, so pat is compiled as a regular expression and searched with
\* re.IGNORECASE; a missing cell yields na=False.
StrContains(cell, pat) ==
    IF cell = NaN THEN FALSE
    ELSE \E i \in 1..(Len(cell) + 1) : ReMatchAt(pat, cell, i)

-----------------------------------------------------------------------------
(* Input data: normalized rows as the loaders produce them.  row_id is the   *)
(* row's provenance (it stands for account_owner/source_file and the row's   *)
(* line in its file): no stage reads or writes it.                           *)

BaseColumns == {"date", "merchant", "type", "category", "amount", "source",
                "row_id"}

Date1 == [year |-> 2025, month |-> 6, day |-> 29]
Date2 == [year |-> 2025, month |-> 7, day |-> 1]

SampleRows == <<
    [date |-> Date1, merchant |-> <<"a", "b">>, type |-> "Payment",
     category |-> NA, amount |-> 1, source |-> "apple_card_joe"],
    [date |-> Date1, merchant |-> <<"A">>, type |-> "Sale",
     category |-> "Shopping", amount |-> -1, source |-> "apple_card_joe"],
    [date |-> Date2, merchant |-> <<"b">>, type |-> "Payment",
     category |-> "Other", amount |-> 0, source |-> "chase_credit_card"],
    [date |-> Date2, merchant |-> NaN, type |-> "Sale",
     category |-> NA, amount |-> -1, source |-> "chase_credit_card"],
    [date |-> Date2, merchant |-> <<"B", "b">>, type |-> "Sale",
     category |-> "Shopping", amount |-> 1, source |-> "apple_card_joe"] >>

\* The row built from a sample, tagged with its provenance.
MakeRow(sample, id) ==
    [c \in BaseColumns |-> IF c = "row_id" THEN id ELSE sample[c]]

\* Every sequence of at most n elements of the pool.
SeqsOver(pool, n) ==
    UNION {{[i \in 1..k |-> pool[s[i]]] : s \in [1..k -> 1..Len(pool)]} : k \in 0..n}

\* Every DataFrame of at most MaxRows normalized rows.
DataFrames ==
    {[columns |-> BaseColumns,
      rows |-> [i \in 1..Len(s) |-> MakeRow(s[i], i)]] : s \in SeqsOver(SampleRows, MaxRows)}

Range(s) == {s[i] : i \in 1..Len(s)}

-----------------------------------------------------------------------------
(* Exclusion stage: RulesEngine.apply_exclusions *)

ExclusionPool == <<
    [source |-> "apple_card_joe", type |-> "Payment", reason |-> "card payment"],
    [description_contains |-> <<"a">>, reason |-> "contains a"],
    [source |-> "chase_credit_card", description_contains |-> <<".">>],
    [category |-> "Shopping", type |-> "Sale", reason |-> "shopping"],
    [reason |-> "everything"] >>

\* exclusions.yaml: absent (the empty dict) or a list under 'exclusions'
ExclusionConfigs ==
    {<< >>} \cup {[exclusions |-> e] : e \in SeqsOver(ExclusionPool, MaxExclusions)}

\* The mask of one exclusion over the current rows (lines 38-52).
ExclusionMask(rows, exclusion) ==
    [i \in 1..Len(rows) |->
        /\ ("source" \in DOMAIN exclusion
              => SeriesEq(rows[i]["source"], exclusion["source"]))
        /\ ("type" \in DOMAIN exclusion
              => SeriesEq(rows[i]["type"], exclusion["type"]))
        /\ ("category" \in DOMAIN exclusion
              => SeriesEq(rows[i]["category"], exclusion["category"]))
        /\ ("description_contains" \in DOMAIN exclusion
              => StrContains(rows[i]["merchant"], exclusion["description_contains"]))]

\* mask.sum()
RECURSIVE MaskSumFrom(_, _)
MaskSumFrom(mask, i) ==
    IF i > Len(mask) THEN 0
    ELSE (IF mask[i] THEN 1 ELSE 0) + MaskSumFrom(mask, i + 1)

MaskSum(mask) == MaskSumFrom(mask, 1)

\* result_df[~mask].reset_index(drop=True)
RECURSIVE DropMaskedFrom(_, _, _)
DropMaskedFrom(rows, mask, i) ==
    IF i > Len(rows) THEN << >>
    ELSE (IF mask[i] THEN << >> ELSE <<rows[i]>>) \o DropMaskedFrom(rows, mask, i + 1)

DropMasked(rows, mask) == DropMaskedFrom(rows, mask, 1)

\* Mutant: a predicate removes only the first row it matches.
ApplyOneExclusionFirstMatchOnly(st, exclusion) ==
    LET mask == ExclusionMask(st.rows, exclusion)
        first == [i \in 1..Len(mask) |-> mask[i] /\ \A j \in 1..(i - 1) : ~mask[j]]
    IN  IF MaskSum(mask) > 0
        THEN [rows |-> DropMasked(st.rows, first),
              out |-> Append(st.out,
                         [kind |-> "excluded", count |-> 1,
                          reason |-> Get(exclusion, "reason", "No reason provided")])]
        ELSE st

\* Mutant: the report is printed after the if block, so a predicate that
\* removed nothing reports a count of 0.
ApplyOneExclusionAlwaysReports(st, exclusion) ==
    LET mask == ExclusionMask(st.rows, exclusion)
        excluded_count == MaskSum(mask)
    IN  [rows |-> IF excluded_count > 0 THEN DropMasked(st.rows, mask) ELSE st.rows,
         out |-> Append(st.out,
                    [kind |-> "excluded", count |-> excluded_count,
                     reason |-> Get(exclusion, "reason", "No reason provided")])]

\* One iteration of the loop over the exclusions (lines 36-58): st is
\* [rows, out], the rows left and the lines printed so far.
ApplyOneExclusion(st, exclusion) ==
    LET mask == ExclusionMask(st.rows, exclusion)
        excluded_count == MaskSum(mask)
    IN  IF excluded_count > 0
        THEN [rows |-> DropMasked(st.rows, mask),
              out |-> Append(st.out,
                         [kind |-> "excluded", count |-> excluded_count,
                          reason |-> Get(exclusion, "reason", "No reason provided")])]
        ELSE st

\* Mutant: the return sits inside the "if excluded_count > 0" block, so the
\* loop ends after the first exclusion that removed something.
RECURSIVE ExclusionLoopEarlyReturn(_, _, _)
ExclusionLoopEarlyReturn(st, list, k) ==
    IF k > Len(list) THEN st
    ELSE LET nxt == ApplyOneExclusion(st, list[k])
         IN  IF Len(nxt.rows) < Len(st.rows) THEN nxt
             ELSE ExclusionLoopEarlyReturn(nxt, list, k + 1)

RECURSIVE ExclusionLoop(_, _, _)
ExclusionLoop(st, list, k) ==
    IF k > Len(list) THEN st
    ELSE ExclusionLoop(ApplyOneExclusion(st, list[k]), list, k + 1)

\* Mutant: the count a predicate reports is taken on the input frame, so a
\* row that several predicates match is counted by each of them.
RECURSIVE ReportsOnInput(_, _, _)
ReportsOnInput(rows, list, k) ==
    IF k > Len(list) THEN << >>
    ELSE LET n == MaskSum(ExclusionMask(rows, list[k]))
         IN  (IF n > 0
              THEN <<[kind |-> "excluded", count |-> n,
                      reason |-> Get(list[k], "reason", "No reason provided")]>>
              ELSE << >>) \o ReportsOnInput(rows, list, k + 1)

ApplyExclusionsCountsOnInput(d, cfg) ==
    LET st == ExclusionLoop([rows |-> d.rows, out |-> << >>],
                            Get(cfg, "exclusions", << >>), 1)
    IN  [df |-> [columns |-> d.columns, rows |-> st.rows],
         out |-> ReportsOnInput(d.rows, Get(cfg, "exclusions", << >>), 1)]

\* apply_exclusions(df) under the configuration cfg: [df, out], the frame
\* returned and the lines printed.
ApplyExclusions(d, cfg) ==
    LET st == ExclusionLoop([rows |-> d.rows, out |-> << >>],
                            Get(cfg, "exclusions", << >>), 1)
    IN  [df |-> [columns |-> d.columns, rows |-> st.rows], out |-> st.out]

-----------------------------------------------------------------------------
(* Custom rule stage: RulesEngine.apply_custom_rules *)

RulePool == <<
    [name |-> "Salary Income",
     conditions |-> [source |-> "apple_card_joe", description_contains |-> <<"a">>],
     action |-> [category |-> "Salary Income", flag |-> "primary_income"]],
    [name |-> "Shopping is Other",
     conditions |-> [category |-> "Shopping"],
     action |-> [category |-> "Other"]],
    [name |-> "Salary is Shopping",
     conditions |-> [category |-> "Salary Income", type |-> "Payment"],
     action |-> [category |-> "Shopping"]],
    [conditions |-> [amount_min |-> 0, amount_max |-> 0],
     action |-> [flag |-> "zero"]],
    [name |-> "Inflow",
     conditions |-> [amount_min |-> 1],
     action |-> [category |-> "Income"]],
    [name |-> "Everything",
     action |-> [category |-> "Misc"]] >>

\* rules.yaml: absent (the empty dict) or a list under 'custom_rules'
RuleConfigs ==
    {<< >>} \cup {[custom_rules |-> r] : r \in SeqsOver(RulePool, MaxRules)}

\* Mutant: the amount bounds are exclusive, > amount_min and < amount_max.
RuleMaskExclusiveBounds(rows, rule) ==
    LET conditions == Get(rule, "conditions", << >>)
    IN  [i \in 1..Len(rows) |->
            /\ ("source" \in DOMAIN conditions
                  => SeriesEq(rows[i]["source"], conditions["source"]))
            /\ ("type" \in DOMAIN conditions
                  => SeriesEq(rows[i]["type"], conditions["type"]))
            /\ ("category" \in DOMAIN conditions
                  => SeriesEq(rows[i]["category"], conditions["category"]))
            /\ ("description_contains" \in DOMAIN conditions
                  => StrContains(rows[i]["merchant"], conditions["description_contains"]))
            /\ ("amount_min" \in DOMAIN conditions
                  => rows[i]["amount"] > conditions["amount_min"])
            /\ ("amount_max" \in DOMAIN conditions
                  => rows[i]["amount"] < conditions["amount_max"])]

\* The mask of one rule over the current rows (lines 72-94).
RuleMask(rows, rule) ==
    LET conditions == Get(rule, "conditions", << >>)
    IN  [i \in 1..Len(rows) |->
            /\ ("source" \in DOMAIN conditions
                  => SeriesEq(rows[i]["source"], conditions["source"]))
            /\ ("type" \in DOMAIN conditions
                  => SeriesEq(rows[i]["type"], conditions["type"]))
            /\ ("category" \in DOMAIN conditions
                  => SeriesEq(rows[i]["category"], conditions["category"]))
            /\ ("description_contains" \in DOMAIN conditions
                  => StrContains(rows[i]["merchant"], conditions["description_contains"]))
            /\ ("amount_min" \in DOMAIN conditions
                  => rows[i]["amount"] >= conditions["amount_min"])
            /\ ("amount_max" \in DOMAIN conditions
                  => rows[i]["amount"] <= conditions["amount_max"])]

\* Mutant: the assignment keeps only the rows it wrote,
\* result_df = result_df[mask] after the write.
SetWhereKeepsMatched(rows, mask, column, value) ==
    DropMasked([i \in 1..Len(rows) |-> [rows[i] EXCEPT ![column] = value]],
               [i \in 1..Len(rows) |-> ~mask[i]])

\* result_df.loc[mask, column] = value
SetWhere(rows, mask, column, value) ==
    [i \in 1..Len(rows) |->
        IF mask[i] THEN [rows[i] EXCEPT ![column] = value] ELSE rows[i]]

\* Mutant: the report is printed after the if block, so a rule that matched
\* no row reports a count of 0.
ApplyOneRuleAlwaysReports(st, rule) ==
    LET mask == RuleMask(st.rows, rule)
        actions == Get(rule, "action", << >>)
    IN  [rows |-> IF MaskSum(mask) > 0 /\ "category" \in DOMAIN actions
                  THEN SetWhere(st.rows, mask, "category", actions["category"])
                  ELSE st.rows,
         out |-> Append(st.out,
                    [kind |-> "applied", name |-> Get(rule, "name", "Unknown"),
                     count |-> MaskSum(mask)])]

\* Mutant: the assignment drops the mask, result_df['category'] = value.
ApplyOneRuleAllRows(st, rule) ==
    LET mask == RuleMask(st.rows, rule)
        actions == Get(rule, "action", << >>)
    IN  IF MaskSum(mask) > 0
        THEN [rows |-> IF "category" \in DOMAIN actions
                       THEN [i \in 1..Len(st.rows) |->
                               [st.rows[i] EXCEPT !["category"] = actions["category"]]]
                       ELSE st.rows,
              out |-> Append(st.out,
                         [kind |-> "applied", name |-> Get(rule, "name", "Unknown"),
                          count |-> MaskSum(mask)])]
        ELSE st

\* Mutant: a rule fills only the rows that have no category yet, so the
\* first write wins.
ApplyOneRuleFillOnly(st, rule) ==
    LET mask == RuleMask(st.rows, rule)
        actions == Get(rule, "action", << >>)
        fill == [i \in 1..Len(st.rows) |-> mask[i] /\ st.rows[i]["category"] = NA]
    IN  IF MaskSum(mask) > 0
        THEN [rows |-> IF "category" \in DOMAIN actions
                       THEN SetWhere(st.rows, fill, "category", actions["category"])
                       ELSE st.rows,
              out |-> Append(st.out,
                         [kind |-> "applied", name |-> Get(rule, "name", "Unknown"),
                          count |-> MaskSum(mask)])]
        ELSE st

\* One iteration of the loop over the rules (lines 70-105).
ApplyOneRule(st, rule) ==
    LET mask == RuleMask(st.rows, rule)
        actions == Get(rule, "action", << >>)
    IN  IF MaskSum(mask) > 0
        THEN [rows |-> IF "category" \in DOMAIN actions
                       THEN SetWhere(st.rows, mask, "category", actions["category"])
                       ELSE st.rows,
              out |-> Append(st.out,
                         [kind |-> "applied", name |-> Get(rule, "name", "Unknown"),
                          count |-> MaskSum(mask)])]
        ELSE st

\* The loop over the rules k..last of the list.
RECURSIVE RuleLoop(_, _, _, _)
RuleLoop(st, list, k, last) ==
    IF k > last THEN st
    ELSE RuleLoop(ApplyOneRule(st, list[k]), list, k + 1, last)

\* Mutant: every rule's mask is taken on the input frame, so a rule never
\* sees what the rules before it wrote.
RECURSIVE RuleLoopOnInput(_, _, _, _)
RuleLoopOnInput(orig, st, list, k) ==
    IF k > Len(list) THEN st
    ELSE LET mask == RuleMask(orig, list[k])
             actions == Get(list[k], "action", << >>)
             nxt == IF MaskSum(mask) > 0
                    THEN [rows |-> IF "category" \in DOMAIN actions
                                   THEN SetWhere(st.rows, mask, "category", actions["category"])
                                   ELSE st.rows,
                          out |-> Append(st.out,
                                     [kind |-> "applied",
                                      name |-> Get(list[k], "name", "Unknown"),
                                      count |-> MaskSum(mask)])]
                    ELSE st
         IN  RuleLoopOnInput(orig, nxt, list, k + 1)

ApplyCustomRulesOnInput(d, cfg) ==
    LET st == RuleLoopOnInput(d.rows, [rows |-> d.rows, out |-> << >>],
                              Get(cfg, "custom_rules", << >>), 1)
    IN  [df |-> [columns |-> d.columns, rows |-> st.rows], out |-> st.out]

\* apply_custom_rules(df) under the configuration cfg: [df, out].
ApplyCustomRules(d, cfg) ==
    LET list == Get(cfg, "custom_rules", << >>)
        st == RuleLoop([rows |-> d.rows, out |-> << >>], list, 1, Len(list))
    IN  [df |-> [columns |-> d.columns, rows |-> st.rows], out |-> st.out]

-----------------------------------------------------------------------------
(* Category mapping stage: RulesEngine.apply_category_mapping *)

\* The sequences of at most n elements of the pool whose keys (first
\* components) are all different: the items of a dict, in declared order.
DictItems(pool, n) ==
    {s \in SeqsOver(pool, n) : \A i, j \in 1..Len(s) : s[i][1] = s[j][1] => i = j}

MappingPool == <<
    <<"Shopping", "Discretionary">>,
    <<"Other", "Shopping">>,
    <<"Salary Income", "Income">> >>

\* category_mapping.yaml: absent, or 'master_categories' with or without a
\* 'default_category'
MappingConfigs ==
    {<< >>}
    \cup {[master_categories |-> m] : m \in DictItems(MappingPool, MaxMappings)}
    \cup {[master_categories |-> m, default_category |-> "Unmapped"] :
             m \in DictItems(MappingPool, MaxMappings)}

\* result_df[column] = values: the column is added (or replaced); values is
\* the Series assigned, one value per row.
WithColumn(d, column, values) ==
    [columns |-> d.columns \cup {column},
     rows |-> [i \in 1..Len(d.rows) |->
                 [c \in d.columns \cup {column} |->
                     IF c = column THEN values[i] ELSE d.rows[i][c]]]]

\* A scalar broadcast over the rows of a frame.
Broadcast(d, value) == [i \in 1..Len(d.rows) |-> value]

\* Mutant: an entry also maps the rows whose master_category equals its key,
\* so the mappings chain.
RECURSIVE MappingLoopChained(_, _, _)
MappingLoopChained(rows, items, k) ==
    IF k > Len(items) THEN rows
    ELSE LET orig_mask == [i \in 1..Len(rows) |->
                             \/ SeriesEq(rows[i]["category"], items[k][1])
                             \/ SeriesEq(rows[i]["master_category"], items[k][1])]
         IN  MappingLoopChained(SetWhere(rows, orig_mask, "master_category", items[k][2]),
                                items, k + 1)

\* The loop over master_categories.items() (lines 119-121).
RECURSIVE MappingLoop(_, _, _)
MappingLoop(rows, items, k) ==
    IF k > Len(items) THEN rows
    ELSE LET orig_mask == [i \in 1..Len(rows) |-> SeriesEq(rows[i]["category"], items[k][1])]
         IN  MappingLoop(SetWhere(rows, orig_mask, "master_category", items[k][2]),
                         items, k + 1)

\* Mutant: the default label is the literal, the configured one is ignored.
ApplyCategoryMappingFixedDefault(d, cfg) ==
    LET init == WithColumn(d, "master_category", Broadcast(d, "Uncategorized"))
    IN  [columns |-> init.columns,
         rows |-> MappingLoop(init.rows, Get(cfg, "master_categories", << >>), 1)]

\* apply_category_mapping(df) under the configuration cfg: the frame returned.
ApplyCategoryMapping(d, cfg) ==
    LET default == Get(cfg, "default_category", "Uncategorized")
        init == WithColumn(d, "master_category", Broadcast(d, default))
    IN  [columns |-> init.columns,
         rows |-> MappingLoop(init.rows, Get(cfg, "master_categories", << >>), 1)]

-----------------------------------------------------------------------------
(* Merchant grouping stage: RulesEngine.apply_merchant_grouping *)

GroupPool == <<
    <<<<"g", "1">>, [patterns |-> << <<"a">> >>, master_name |-> <<"A">>]>>,
    <<<<"g", "2">>, [patterns |-> << <<"a", "b">>, <<"b">> >>]>>,
    <<<<"g", "3">>, [patterns |-> << <<".">> >>, master_name |-> <<"X">>]>>,
    <<<<"g", "4">>, [master_name |-> <<"Y">>]>> >>

\* rules.yaml: absent, or a dict of groups under 'merchant_groups'
GroupConfigs ==
    {<< >>} \cup {[merchant_groups |-> g] : g \in DictItems(GroupPool, MaxGroups)}

\* The loop over one group's patterns (lines 139-141).
RECURSIVE PatternLoop(_, _, _, _)
PatternLoop(rows, patterns, master_name, k) ==
    IF k > Len(patterns) THEN rows
    ELSE LET mask == [i \in 1..Len(rows) |-> StrContains(rows[i]["merchant"], patterns[k])]
         IN  PatternLoop(SetWhere(rows, mask, "merchant_group", master_name),
                         patterns, master_name, k + 1)

\* The loop over merchant_groups.items() (lines 134-141).
RECURSIVE GroupLoop(_, _, _)
GroupLoop(rows, groups, g) ==
    IF g > Len(groups) THEN rows
    ELSE LET group_name == groups[g][1]
             group_config == groups[g][2]
             patterns == Get(group_config, "patterns", << >>)
             master_name == Get(group_config, "master_name", group_name)
         IN  GroupLoop(PatternLoop(rows, patterns, master_name, 1), groups, g + 1)

\* Mutant: merchant_group starts out missing instead of as the merchant.
ApplyMerchantGroupingFromMissing(d, cfg) ==
    LET init == WithColumn(d, "merchant_group", Broadcast(d, NaN))
    IN  [columns |-> init.columns,
         rows |-> GroupLoop(init.rows, Get(cfg, "merchant_groups", << >>), 1)]

\* apply_merchant_grouping(df) under the configuration cfg: the frame returned.
ApplyMerchantGrouping(d, cfg) ==
    LET init == WithColumn(d, "merchant_group", [i \in 1..Len(d.rows) |-> d.rows[i]["merchant"]])
    IN  [columns |-> init.columns,
         rows |-> GroupLoop(init.rows, Get(cfg, "merchant_groups", << >>), 1)]

-----------------------------------------------------------------------------
(* Derived field stage: ExpenseProcessor._add_derived_fields *)

AccountGroupPool == <<
    <<"shared", <<"apple_card_joe", "chase_credit_card">>>>,
    <<"joe", <<"chase_credit_card">>>>,
    <<"nobody", << >>>> >>

\* report_config.yaml: absent, 'report_settings' without 'account_groups', or
\* 'account_groups' as a dict of group name -> list of sources
ReportConfigs ==
    {<< >>, [report_settings |-> << >>]}
    \cup {[report_settings |-> [account_groups |-> g]] :
             g \in DictItems(AccountGroupPool, MaxAccountGroups)}

Abs(x) == IF x < 0 THEN -x ELSE x

\* Mutant: a group claims only the rows that no earlier group has claimed, so
\* the first group listing a source wins.
RECURSIVE AccountGroupLoopFirstWins(_, _, _)
AccountGroupLoopFirstWins(rows, groups, g) ==
    IF g > Len(groups) THEN rows
    ELSE LET mask == [i \in 1..Len(rows) |->
                        /\ rows[i]["source"] \in Range(groups[g][2])
                        /\ rows[i]["account_group"] = "unknown"]
         IN  AccountGroupLoopFirstWins(SetWhere(rows, mask, "account_group", groups[g][1]),
                                       groups, g + 1)

\* The loop over account_groups.items() (lines 98-100).
RECURSIVE AccountGroupLoop(_, _, _)
AccountGroupLoop(rows, groups, g) ==
    IF g > Len(groups) THEN rows
    ELSE LET mask == [i \in 1..Len(rows) |-> rows[i]["source"] \in Range(groups[g][2])]
         IN  AccountGroupLoop(SetWhere(rows, mask, "account_group", groups[g][1]),
                              groups, g + 1)

\* Mutant: the income test is x >= 0, so a zero amount counts as income.
AddDerivedFieldsZeroIsIncome(d, cfg) ==
    LET n == Len(d.rows)
        date == [i \in 1..n |-> d.rows[i]["date"]]
        amount == [i \in 1..n |-> d.rows[i]["amount"]]
        d1 == WithColumn(d, "year", [i \in 1..n |-> date[i].year])
        d2 == WithColumn(d1, "month", [i \in 1..n |-> date[i].month])
        d3 == WithColumn(d2, "year_month",
                         [i \in 1..n |-> [year |-> date[i].year, month |-> date[i].month]])
        d4 == WithColumn(d3, "abs_amount", [i \in 1..n |-> Abs(amount[i])])
        d5 == WithColumn(d4, "transaction_type",
                         [i \in 1..n |-> IF amount[i] >= 0 THEN "Income" ELSE "Expense"])
        d6 == WithColumn(d5, "account_group", Broadcast(d, "unknown"))
        account_groups == Get(Get(cfg, "report_settings", << >>), "account_groups", << >>)
    IN  [columns |-> d6.columns,
         rows |-> AccountGroupLoop(d6.rows, account_groups, 1)]

\* _add_derived_fields(df) under report_config cfg: the frame returned.
AddDerivedFields(d, cfg) ==
    LET n == Len(d.rows)
        date == [i \in 1..n |-> d.rows[i]["date"]]
        amount == [i \in 1..n |-> d.rows[i]["amount"]]
        d1 == WithColumn(d, "year", [i \in 1..n |-> date[i].year])
        d2 == WithColumn(d1, "month", [i \in 1..n |-> date[i].month])
        d3 == WithColumn(d2, "year_month",
                         [i \in 1..n |-> [year |-> date[i].year, month |-> date[i].month]])
        d4 == WithColumn(d3, "abs_amount", [i \in 1..n |-> Abs(amount[i])])
        d5 == WithColumn(d4, "transaction_type",
                         [i \in 1..n |-> IF amount[i] > 0 THEN "Income" ELSE "Expense"])
        d6 == WithColumn(d5, "account_group", Broadcast(d, "unknown"))
        account_groups == Get(Get(cfg, "report_settings", << >>), "account_groups", << >>)
    IN  [columns |-> d6.columns,
         rows |-> AccountGroupLoop(d6.rows, account_groups, 1)]

-----------------------------------------------------------------------------
(* The pipeline: ExpenseProcessor.process_data *)

\* Mutant: steps 3 and 4 swapped, the categories are mapped before the
\* custom rules rewrite them.
StageOrderMappingFirst ==
    <<"apply_exclusions", "apply_category_mapping", "apply_custom_rules",
      "apply_merchant_grouping", "add_derived_fields">>

\* Mutant: steps 2 and 3 swapped, the custom rules run before the exclusions.
StageOrderRulesFirst ==
    <<"apply_custom_rules", "apply_exclusions", "apply_category_mapping",
      "apply_merchant_grouping", "add_derived_fields">>

\* The stages in the order process_data calls them (steps 2-6).
StageOrder ==
    <<"apply_exclusions", "apply_custom_rules", "apply_category_mapping",
      "apply_merchant_grouping", "add_derived_fields">>

\* The position that follows a stage: the next stage, then step 7.
After(stage) ==
    LET n == CHOOSE k \in 1..Len(StageOrder) : StageOrder[k] = stage
    IN  IF n < Len(StageOrder) THEN StageOrder[n + 1] ELSE "save_intermediate"

\* load_all_data sorts the combined frame by date.
DateKey(date) == (date.year * 12 + date.month) * 31 + date.day

SortedByDate(d) ==
    \A i, j \in 1..Len(d.rows) :
        i < j => DateKey(d.rows[i]["date"]) <= DateKey(d.rows[j]["date"])

NoFrame == [columns |-> {}, rows |-> << >>]

\* The loaders of load_all_data in the order of its list (lines 108-113),
\* with the folder each reads and the source id it stamps on its rows.
Loaders == <<
    [class |-> "ChaseCheckingLoader", folder |-> "chase_checking",
     source |-> "chase_checking"],
    [class |-> "ChaseCreditCardLoader", folder |-> "chase_card",
     source |-> "chase_credit_card"],
    [class |-> "AppleCardLoader", folder |-> "joe_apple_card",
     source |-> "apple_card_joe"],
    [class |-> "AppleCardLoader", folder |-> "nikita_apple_card",
     source |-> "apple_card_nikita"] >>

\* What a loader finds in its folder:
\*   "csv"        CSV files that parse: load_data returns their rows
\*   "no_csv"     no folder or no CSV file in it: _load_csv_files raises
\*                FileNotFoundError
\*   "malformed"  a CSV file without an expected column or with a date or
\*                amount that does not parse: load_data raises KeyError or
\*                ValueError
FolderStates == {"csv", "no_csv", "malformed"}

AllLoaded == [k \in 1..Len(Loaders) |-> "csv"]
NoneLoaded == [k \in 1..Len(Loaders) |-> "no_csv"]

\* len(data) of a loader: the rows of the combined frame that carry its source.
RecordsFrom(rows, source) == Cardinality({i \in 1..Len(rows) : rows[i]["source"] = source})

\* Mutant: the loop has no except clause, so a loader without CSV files ends
\* the load like any other exception.
RECURSIVE LoaderLoopUncaught(_, _, _, _)
LoaderLoopUncaught(state, rows, k, st) ==
    IF k > Len(Loaders) THEN st
    ELSE IF state[k] # "csv" THEN [st EXCEPT !.raised = TRUE]
         ELSE LoaderLoopUncaught(state, rows, k + 1,
                            [st EXCEPT !.loaded = @ \cup {k},
                                       !.out = Append(@, [kind |-> "loaded",
                                                          count |-> RecordsFrom(rows, Loaders[k].source),
                                                          loader |-> Loaders[k].class])])

\* The loop over the loaders (lines 115-122) from loader k on: st is
\* [loaded, out, raised], the loaders appended to all_data, the lines printed
\* and whether an exception other than FileNotFoundError has left the loop.
RECURSIVE LoaderLoop(_, _, _, _)
LoaderLoop(state, rows, k, st) ==
    IF k > Len(Loaders) THEN st
    ELSE CASE state[k] = "no_csv" ->
                 LoaderLoop(state, rows, k + 1,
                            [st EXCEPT !.out = Append(@, [kind |-> "warning",
                                                          folder |-> Loaders[k].folder])])
           [] state[k] = "malformed" -> [st EXCEPT !.raised = TRUE]
           [] OTHER ->
                 LoaderLoop(state, rows, k + 1,
                            [st EXCEPT !.loaded = @ \cup {k},
                                       !.out = Append(@, [kind |-> "loaded",
                                                          count |-> RecordsFrom(rows, Loaders[k].source),
                                                          loader |-> Loaders[k].class])])

-----------------------------------------------------------------------------
(* The stage calls *)

\* Step 1 of process_data, load_all_data: the loaders that find CSV files hand
\* over their rows, combined and sorted by date.  A loader without CSV files
\* is skipped with a warning; any other exception of a loader, and the
\* ValueError raised when no loader returned data, leave process_data, and
\* main prints the error and exits.
LoadAllData ==
    /\ pc = "load_all_data"
    /\ \E d \in DataFrames :
          LET r == LoaderLoop(folders, d.rows, 1,
                              [loaded |-> {}, out |-> << >>, raised |-> FALSE])
          IN  /\ SortedByDate(d)
              /\ \A i \in 1..Len(d.rows) :
                    d.rows[i]["source"] \in {Loaders[k].source : k \in r.loaded}
              /\ IF r.raised \/ r.loaded = {}
                 THEN /\ pc' = "failed"
                      /\ out' = out \o r.out \o
                                 <<[kind |-> "error",
                                    error |-> IF r.raised THEN "malformed input"
                                              ELSE "No data loaded from any source"]>>
                      /\ UNCHANGED <<df, input>>
                 ELSE /\ pc' = StageOrder[1]
                      /\ out' = out \o r.out
                      /\ df' = d
                      /\ input' = d
    /\ UNCHANGED <<config_vars, saved, calls>>

ApplyExclusionsCall ==
    /\ pc = "apply_exclusions"
    /\ LET r == ApplyExclusions(df, exclusions)
       IN  /\ df' = r.df
           /\ out' = out \o r.out
           /\ calls' = Append(calls, <<"apply_exclusions", df, r.df>>)
    /\ pc' = After("apply_exclusions")
    /\ UNCHANGED <<config_vars, input, saved>>

ApplyCustomRulesCall ==
    /\ pc = "apply_custom_rules"
    /\ LET r == ApplyCustomRules(df, custom_rules)
       IN  /\ df' = r.df
           /\ out' = out \o r.out
           /\ calls' = Append(calls, <<"apply_custom_rules", df, r.df>>)
    /\ pc' = After("apply_custom_rules")
    /\ UNCHANGED <<config_vars, input, saved>>

ApplyCategoryMappingCall ==
    /\ pc = "apply_category_mapping"
    /\ LET r == ApplyCategoryMapping(df, category_mapping)
       IN  /\ df' = r
           /\ calls' = Append(calls, <<"apply_category_mapping", df, r>>)
    /\ pc' = After("apply_category_mapping")
    /\ UNCHANGED <<config_vars, input, out, saved>>

ApplyMerchantGroupingCall ==
    /\ pc = "apply_merchant_grouping"
    /\ LET r == ApplyMerchantGrouping(df, custom_rules)
       IN  /\ df' = r
           /\ calls' = Append(calls, <<"apply_merchant_grouping", df, r>>)
    /\ pc' = After("apply_merchant_grouping")
    /\ UNCHANGED <<config_vars, input, out, saved>>

AddDerivedFieldsCall ==
    /\ pc = "add_derived_fields"
    /\ LET r == AddDerivedFields(df, report_config)
       IN  /\ df' = r
           /\ calls' = Append(calls, <<"add_derived_fields", df, r>>)
    /\ pc' = After("add_derived_fields")
    /\ UNCHANGED <<config_vars, input, out, saved>>

\* Step 7 of process_data and its return (lines 69-75).
SaveIntermediate ==
    /\ pc = "save_intermediate"
    /\ saved' = IF Get(Get(report_config, "output_settings", << >>),
                       "save_intermediate", TRUE)
                THEN Append(saved, df)
                ELSE saved
    /\ pc' = "done"
    /\ UNCHANGED <<config_vars, df, input, out, calls>>

-----------------------------------------------------------------------------
(* RulesEngine.apply_exclusions called on its own, as the tests call it *)

InitExclusions ==
    /\ df \in DataFrames
    /\ input = df
    /\ pc = "apply_exclusions"
    /\ exclusions \in ExclusionConfigs
    /\ custom_rules = << >>
    /\ category_mapping = << >>
    /\ report_config = << >>
    /\ folders = AllLoaded
    /\ out = << >>
    /\ saved = << >>
    /\ calls = << >>

SpecExclusions == InitExclusions /\ [][ApplyExclusionsCall]_vars

(* RulesEngine.apply_custom_rules called on its own *)

InitCustomRules ==
    /\ df \in DataFrames
    /\ input = df
    /\ pc = "apply_custom_rules"
    /\ exclusions = << >>
    /\ custom_rules \in RuleConfigs
    /\ category_mapping = << >>
    /\ report_config = << >>
    /\ folders = AllLoaded
    /\ out = << >>
    /\ saved = << >>
    /\ calls = << >>

SpecCustomRules == InitCustomRules /\ [][ApplyCustomRulesCall]_vars

(* RulesEngine.apply_category_mapping called on its own *)

InitCategoryMapping ==
    /\ df \in DataFrames
    /\ input = df
    /\ pc = "apply_category_mapping"
    /\ exclusions = << >>
    /\ custom_rules = << >>
    /\ category_mapping \in MappingConfigs
    /\ report_config = << >>
    /\ folders = AllLoaded
    /\ out = << >>
    /\ saved = << >>
    /\ calls = << >>

SpecCategoryMapping == InitCategoryMapping /\ [][ApplyCategoryMappingCall]_vars

(* RulesEngine.apply_merchant_grouping called on its own *)

InitMerchantGrouping ==
    /\ df \in DataFrames
    /\ input = df
    /\ pc = "apply_merchant_grouping"
    /\ exclusions = << >>
    /\ custom_rules \in GroupConfigs
    /\ category_mapping = << >>
    /\ report_config = << >>
    /\ folders = AllLoaded
    /\ out = << >>
    /\ saved = << >>
    /\ calls = << >>

SpecMerchantGrouping == InitMerchantGrouping /\ [][ApplyMerchantGroupingCall]_vars

(* ExpenseProcessor._add_derived_fields called on its own *)

InitDerivedFields ==
    /\ df \in DataFrames
    /\ input = df
    /\ pc = "add_derived_fields"
    /\ exclusions = << >>
    /\ custom_rules = << >>
    /\ category_mapping = << >>
    /\ report_config \in ReportConfigs
    /\ folders = AllLoaded
    /\ out = << >>
    /\ saved = << >>
    /\ calls = << >>

SpecDerivedFields == InitDerivedFields /\ [][AddDerivedFieldsCall]_vars

(* apply_custom_rules then apply_category_mapping, as test_category_mapping *)
(* calls them                                                              *)

TestMappings ==
    {[master_categories |-> <<<<"Other", "Payments">>, <<"Shopping", "Shopping">>>>,
      default_category |-> "Uncategorized"],
     [master_categories |-> <<<<"Salary Income", "Income">>>>]}

InitRulesThenMapping ==
    /\ df \in DataFrames
    /\ input = df
    /\ pc = "apply_custom_rules"
    /\ exclusions = << >>
    /\ custom_rules \in RuleConfigs
    /\ category_mapping \in TestMappings
    /\ report_config = << >>
    /\ folders = AllLoaded
    /\ out = << >>
    /\ saved = << >>
    /\ calls = << >>

SpecRulesThenMapping ==
    InitRulesThenMapping /\ [][ApplyCustomRulesCall \/ ApplyCategoryMappingCall]_vars

(* process_data: the whole pipeline over a set of configurations *)

PipelineExclusions ==
    {<< >>,
     [exclusions |-> <<ExclusionPool[1]>>],
     [exclusions |-> <<ExclusionPool[4], ExclusionPool[3]>>],
     [exclusions |-> <<[category |-> "Misc", reason |-> "miscellaneous"],
                       [category |-> "Other", reason |-> "other"]>>]}

PipelineRules ==
    {<< >>,
     [custom_rules |-> <<RulePool[2]>>],
     [custom_rules |-> <<RulePool[1], RulePool[3]>>,
      merchant_groups |-> <<GroupPool[1], GroupPool[2]>>],
     [merchant_groups |-> <<GroupPool[3]>>],
     [custom_rules |-> <<RulePool[6], RulePool[4]>>,
      merchant_groups |-> <<GroupPool[2], GroupPool[4], GroupPool[1]>>]}

PipelineMappings ==
    {<< >>,
     [master_categories |-> <<MappingPool[1], MappingPool[2]>>,
      default_category |-> "Unmapped"],
     [master_categories |-> <<MappingPool[3]>>]}

PipelineReports ==
    {<< >>,
     [report_settings |-> [account_groups |-> <<AccountGroupPool[1], AccountGroupPool[2]>>]],
     [report_settings |-> [account_groups |-> <<AccountGroupPool[2], AccountGroupPool[3]>>],
      output_settings |-> [save_intermediate |-> FALSE]]}

PipelineFolders == {AllLoaded, NoneLoaded}

Init ==
    /\ df = NoFrame
    /\ input = NoFrame
    /\ pc = "load_all_data"
    /\ exclusions \in PipelineExclusions
    /\ custom_rules \in PipelineRules
    /\ category_mapping \in PipelineMappings
    /\ report_config \in PipelineReports
    /\ folders \in PipelineFolders
    /\ out = << >>
    /\ saved = << >>
    /\ calls = << >>

Next ==
    \/ LoadAllData
    \/ ApplyExclusionsCall
    \/ ApplyCustomRulesCall
    \/ ApplyCategoryMappingCall
    \/ ApplyMerchantGroupingCall
    \/ AddDerivedFieldsCall
    \/ SaveIntermediate

Spec == Init /\ [][Next]_vars

(* process_data over every state of the four folders, under one configuration *)

InitLoad ==
    /\ df = NoFrame
    /\ input = NoFrame
    /\ pc = "load_all_data"
    /\ exclusions = [exclusions |-> <<ExclusionPool[1]>>]
    /\ custom_rules = << >>
    /\ category_mapping = << >>
    /\ report_config = << >>
    /\ folders \in [1..Len(Loaders) -> FolderStates]
    /\ out = << >>
    /\ saved = << >>
    /\ calls = << >>

SpecLoad == InitLoad /\ [][Next]_vars

-----------------------------------------------------------------------------
(* What the specification means by its conditions *)

\* text contains pat as a case-insensitive literal substring; a missing text
\* contains nothing.
LiteralContains(text, pat) ==
    /\ text # NaN
    /\ \E i \in 1..(Len(text) + 1) :
          /\ i + Len(pat) - 1 <= Len(text)
          /\ \A j \in 1..Len(pat) : Lower(pat[j]) = Lower(text[i + j - 1])

\* A row matches an exclusion predicate: every sub-condition the predicate
\* specifies holds, an omitted one constrains nothing.
RowMatchesPredicate(row, pred) ==
    /\ ("source" \in DOMAIN pred => row["source"] = pred["source"])
    /\ ("type" \in DOMAIN pred => row["type"] = pred["type"])
    /\ ("category" \in DOMAIN pred => row["category"] = pred["category"])
    /\ ("description_contains" \in DOMAIN pred
          => LiteralContains(row["merchant"], pred["description_contains"]))

ExclusionList == Get(exclusions, "exclusions", << >>)

ExclusionsReturned == pc = "apply_custom_rules" /\ calls # << >>

-----------------------------------------------------------------------------
(* Claims about the Exclusion stage *)

\* C1: apply_exclusions returns exactly the rows of the input that match no
\* predicate of the exclusion list, a row matching a predicate iff it
\* satisfies every sub-condition the predicate specifies (source, type,
\* category by equality, description_contains by substring on merchant).
C1_ExclusionKeepsExactlyUnmatched ==
    ExclusionsReturned =>
        df.rows = SelectSeq(input.rows,
                     LAMBDA row : \A k \in 1..Len(ExclusionList) :
                                     ~RowMatchesPredicate(row, ExclusionList[k]))

\* C2: the rows apply_exclusions returns are rows of its input, unchanged
\* and identified by provenance, and a second pass with the same list
\* removes nothing.
C2_ExclusionMonotonicIdempotent ==
    ExclusionsReturned =>
        /\ Range(df.rows) \subseteq Range(input.rows)
        /\ Len(df.rows) <= Len(input.rows)
        /\ ApplyExclusions(df, exclusions).df = df
        /\ ApplyExclusions(df, exclusions).out = << >>

\* C2 witness: a run that removed one row of two and kept the other.
C2_Witness ==
    /\ ExclusionsReturned
    /\ Len(input.rows) = 2
    /\ Len(df.rows) = 1
    /\ Len(ExclusionList) = 2

-----------------------------------------------------------------------------
(* Claims about the Custom Rule stage *)

Ran(stage) == \E n \in 1..Len(calls) : calls[n][1] = stage

\* The argument and the result of the (one) run of a stage.
ArgOf(stage) == calls[CHOOSE n \in 1..Len(calls) : calls[n][1] = stage][2]
ResultOf(stage) == calls[CHOOSE n \in 1..Len(calls) : calls[n][1] = stage][3]

RuleList == Get(custom_rules, "custom_rules", << >>)

\* The rows as rule k of the run found them: the argument's rows after the
\* rules 1..k-1.
RowsBeforeRule(k) ==
    RuleLoop([rows |-> ArgOf("apply_custom_rules").rows, out |-> << >>],
             RuleList, 1, k - 1).rows

\* Rule k of the run matched the row at position i.
RuleMatched(k, i) == RuleMask(RowsBeforeRule(k), RuleList[k])[i]

RuleAction(k) == Get(RuleList[k], "action", << >>)

\* The rules of the run that matched row i and whose action sets a category.
CategoryWriters(i) ==
    {k \in 1..Len(RuleList) : "category" \in DOMAIN RuleAction(k) /\ RuleMatched(k, i)}

\* The rules of the run that matched row i.
Matchers(i) == {k \in 1..Len(RuleList) : RuleMatched(k, i)}

Max(S) == CHOOSE m \in S : \A n \in S : n <= m

CustomRulesReturned == Ran("apply_custom_rules") /\ pc = "apply_category_mapping"

C4_LastRuleWins ==
    CustomRulesReturned =>
        \A i \in 1..Len(df.rows) :
            df.rows[i]["category"] =
                IF CategoryWriters(i) = {}
                THEN ArgOf("apply_custom_rules").rows[i]["category"]
                ELSE RuleAction(Max(CategoryWriters(i)))["category"]

\* C4 witness: a row that had a category and was matched by two rules that
\* set different categories.
C4_Witness ==
    /\ CustomRulesReturned
    /\ \E i \in 1..Len(df.rows) :
          /\ ArgOf("apply_custom_rules").rows[i]["category"] # NA
          /\ CategoryWriters(i) = {1, 2}
          /\ RuleAction(1)["category"] # RuleAction(2)["category"]

\* C7: the frame apply_custom_rules returns has a custom_category and a
\* flags field, and on every row a rule matched they hold the category and
\* the flag of the (last) matching rule's action.
C7_CustomCategoryAndFlags ==
    (CustomRulesReturned /\ \E i \in 1..Len(df.rows) : Matchers(i) # {}) =>
        /\ "custom_category" \in df.columns
        /\ "flags" \in df.columns
        /\ \A i \in 1..Len(df.rows) :
              Matchers(i) # {} =>
                 LET action == RuleAction(Max(Matchers(i)))
                 IN  /\ "category" \in DOMAIN action
                        => df.rows[i]["custom_category"] = action["category"]
                     /\ "flag" \in DOMAIN action
                        => df.rows[i]["flags"] = action["flag"]

-----------------------------------------------------------------------------
(* Claims about the Category Mapping stage *)

MappingItems == Get(category_mapping, "master_categories", << >>)

MappingKeys == {MappingItems[k][1] : k \in 1..Len(MappingItems)}

MappedValue(key) ==
    MappingItems[CHOOSE k \in 1..Len(MappingItems) : MappingItems[k][1] = key][2]

DefaultLabel ==
    IF "default_category" \in DOMAIN category_mapping
    THEN category_mapping["default_category"]
    ELSE "Uncategorized"

CategoryMappingReturned == Ran("apply_category_mapping") /\ pc = "apply_merchant_grouping"

C6_CustomCategoryIsMasterCategory ==
    (Ran("apply_custom_rules") /\ CategoryMappingReturned) =>
        \A i \in 1..Len(df.rows) :
            CategoryWriters(i) # {} =>
                df.rows[i]["master_category"] = RuleAction(Max(CategoryWriters(i)))["category"]

-----------------------------------------------------------------------------
(* Claims about the Merchant Grouping stage *)

GroupItems == Get(custom_rules, "merchant_groups", << >>)

GroupPatterns(g) == Get(GroupItems[g][2], "patterns", << >>)

MasterName(g) == Get(GroupItems[g][2], "master_name", GroupItems[g][1])

\* The groups with a pattern that is a case-insensitive substring of text.
GroupsContaining(text) ==
    {g \in 1..Len(GroupItems) :
        \E k \in 1..Len(GroupPatterns(g)) : LiteralContains(text, GroupPatterns(g)[k])}

MerchantGroupingReturned == Ran("apply_merchant_grouping") /\ pc = "add_derived_fields"

\* C8: after apply_merchant_grouping a row's merchant_group is the master
\* display name of the group of the last (group, pattern) pair, in declared
\* order, whose pattern is a case-insensitive substring of the row's
\* merchant (so the later of two matching groups wins), and the raw merchant
\* text when no pattern matches.
C8_MerchantGroupLastMatchWins ==
    MerchantGroupingReturned =>
        \A i \in 1..Len(df.rows) :
            LET merchant == df.rows[i]["merchant"]
            IN  df.rows[i]["merchant_group"] =
                    IF GroupsContaining(merchant) = {} THEN merchant
                    ELSE MasterName(Max(GroupsContaining(merchant)))

-----------------------------------------------------------------------------
(* Claims about the pipeline *)

\* C9: when the pipeline has completed, every record has a master_category
\* and a merchant_group and neither is absent, whatever the input records
\* (a missing merchant or category included) and the configuration.
C9_MasterCategoryAndMerchantGroupPresent ==
    pc = "done" =>
        /\ {"master_category", "merchant_group"} \subseteq df.columns
        /\ \A i \in 1..Len(df.rows) :
              /\ df.rows[i]["master_category"] # NA
              /\ df.rows[i]["merchant_group"] # NaN

StagesRun == [n \in 1..Len(calls) |-> calls[n][1]]

FixedOrder ==
    <<"apply_exclusions", "apply_custom_rules", "apply_category_mapping",
      "apply_merchant_grouping", "add_derived_fields">>

\* C10: process_data runs Exclusion, Custom Rules, Category Mapping, Merchant
\* Grouping and Derived Fields once each in that order, whatever the
\* configuration; the first stage receives the loaded frame, every other
\* stage the frame the stage before it returned, and the frame returned is
\* the last stage's.
C10_StagesInFixedOrder ==
    /\ Len(calls) <= Len(FixedOrder)
    /\ StagesRun = SubSeq(FixedOrder, 1, Len(calls))
    /\ \A n \in 1..Len(calls) :
          calls[n][2] = IF n = 1 THEN input ELSE calls[n - 1][3]
    /\ pc \in {"save_intermediate", "done"} =>
          /\ Len(calls) = Len(FixedOrder)
          /\ df = calls[Len(calls)][3]

\* C10 witness: a run over two rows completed with no exclusions and no
\* rules configured.
C10_Witness ==
    /\ pc = "done"
    /\ Len(input.rows) = 2
    /\ StagesRun = FixedOrder
    /\ exclusions = << >>
    /\ custom_rules = << >>

-----------------------------------------------------------------------------
(* C11 *)

\* The provenance of the rows of a frame, in the frame's order.
RowIds(d) == [i \in 1..Len(d.rows) |-> d.rows[i]["row_id"]]

\* s is a duplicate-free subsequence of t: its elements are elements of t,
\* taken once each and in t's order.
IsSubsequence(s, t) ==
    \E f \in [1..Len(s) -> 1..Len(t)] :
        /\ \A i \in 1..Len(s) : s[i] = t[f[i]]
        /\ \A i, j \in 1..Len(s) : i < j => f[i] < f[j]

NoDuplicates(s) == \A i, j \in 1..Len(s) : i # j => s[i] # s[j]

\* C11: through the whole pipeline the rows of every stage's result are a
\* duplicate-free subsequence of the input rows by provenance; only the
\* exclusion stage changes the row count, and no stage reorders or
\* duplicates the rows it keeps.
C11_RowsAreSubsequenceOfInput ==
    /\ pc # "load_all_data" =>
          /\ NoDuplicates(RowIds(df))
          /\ IsSubsequence(RowIds(df), RowIds(input))
    /\ \A n \in 1..Len(calls) :
          LET stage == calls[n][1]
              arg == calls[n][2]
              result == calls[n][3]
          IN  /\ NoDuplicates(RowIds(result))
              /\ IsSubsequence(RowIds(result), RowIds(arg))
              /\ IsSubsequence(RowIds(result), RowIds(input))
              /\ stage # "apply_exclusions" => RowIds(result) = RowIds(arg)

\* The pipeline has finished: the exclusion stage removed the first of two
\* input rows and kept the second, and a custom rule then matched it.
C11_Witness ==
    /\ pc = "done"
    /\ Len(calls) = Len(StageOrder)
    /\ Len(input.rows) = 2
    /\ RowIds(df) = <<2>>
    /\ \E k \in 1..Len(out) : out[k].kind = "applied"

-----------------------------------------------------------------------------
(* C12 *)

DerivedFieldsReturned == pc = After("add_derived_fields") /\ Ran("add_derived_fields")

\* C12: after the derived field stage every row's transaction_type is
\* 'Income' exactly when its amount is strictly positive and 'Expense'
\* otherwise; a zero amount is 'Expense' and the smallest positive amount
\* (one cent) is 'Income'.
C12_TransactionTypeBySign ==
    DerivedFieldsReturned =>
        LET before == ArgOf("add_derived_fields").rows
        IN  \A i \in 1..Len(df.rows) :
               /\ df.rows[i]["amount"] = before[i]["amount"]
               /\ df.rows[i]["transaction_type"] \in {"Income", "Expense"}
               /\ df.rows[i]["transaction_type"] = "Income" <=> before[i]["amount"] > 0
               /\ before[i]["amount"] = 0 => df.rows[i]["transaction_type"] = "Expense"
               /\ before[i]["amount"] = 1 => df.rows[i]["transaction_type"] = "Income"

\* The stage has classified a row of amount 0 and a row of amount 1.
C12_Witness ==
    /\ DerivedFieldsReturned
    /\ \E i, j \in 1..Len(df.rows) :
          /\ input.rows[i]["amount"] = 0 /\ df.rows[i]["transaction_type"] = "Expense"
          /\ input.rows[j]["amount"] = 1 /\ df.rows[j]["transaction_type"] = "Income"

-----------------------------------------------------------------------------
(* C13 *)

\* report_settings.account_groups as (name, sources) items in declared order
AccountGroupItems ==
    Get(Get(report_config, "report_settings", << >>), "account_groups", << >>)

\* The positions of the groups whose source list holds the source.
AccountGroupsContaining(source) ==
    {g \in 1..Len(AccountGroupItems) : source \in Range(AccountGroupItems[g][2])}

\* C13: after the derived field stage a row's account_group is the name of
\* the last configured group, in declared order, whose sources contain the
\* row's source, and "unknown" when no group contains it.
C13_AccountGroupLastGroupWins ==
    DerivedFieldsReturned =>
        \A i \in 1..Len(df.rows) :
            LET groups == AccountGroupsContaining(ArgOf("add_derived_fields").rows[i]["source"])
            IN  df.rows[i]["account_group"] =
                    IF groups = {} THEN "unknown"
                    ELSE AccountGroupItems[Max(groups)][1]

\* A row's source is listed in both of two groups and the row carries the
\* name of the second; the other row's source is listed in the first only.
C13_Witness ==
    /\ DerivedFieldsReturned
    /\ \E i, j \in 1..Len(df.rows) :
          /\ AccountGroupsContaining(df.rows[i]["source"]) = {1, 2}
          /\ df.rows[i]["account_group"] = AccountGroupItems[2][1]
          /\ df.rows[i]["account_group"] # AccountGroupItems[1][1]
          /\ AccountGroupsContaining(df.rows[j]["source"]) = {1}
          /\ df.rows[j]["account_group"] = AccountGroupItems[1][1]

-----------------------------------------------------------------------------
(* C14 *)

\* The report of rule k of the run: its name and the number of rows it matched.
RuleReport(k) ==
    [kind |-> "applied", name |-> Get(RuleList[k], "name", "Unknown"),
     count |-> Cardinality({i \in 1..Len(df.rows) : RuleMatched(k, i)})]

\* The rules of the run that matched at least one row, in list order.
RulesThatMatched ==
    SelectSeq([k \in 1..Len(RuleList) |-> k],
              LAMBDA k : \E i \in 1..Len(df.rows) : RuleMatched(k, i))

\* C14 as stated: every rule of the list reports its name and matched-row
\* count, a rule that matched no row included (count 0), so a run over n
\* rules prints exactly n reports in list order.
C14_EveryRuleReports ==
    CustomRulesReturned =>
        out = [k \in 1..Len(RuleList) |-> RuleReport(k)]

\* C14 amended: a rule reports its name and matched-row count only when it
\* matched at least one row; a rule that matched no row prints nothing.  A
\* run prints one report per rule that matched, in list order, each with a
\* count of at least 1.
C14_MatchingRulesReport ==
    CustomRulesReturned =>
        /\ out = [j \in 1..Len(RulesThatMatched) |-> RuleReport(RulesThatMatched[j])]
        /\ \A j \in 1..Len(out) : out[j].count >= 1
        /\ Len(out) <= Len(RuleList)

\* Of two rules the first matched no row and the second matched one: the
\* only report is the second rule's.
C14_Witness ==
    /\ CustomRulesReturned
    /\ Len(RuleList) = 2
    /\ RulesThatMatched = <<2>>
    /\ out = <<RuleReport(2)>>
    /\ out[1].count = 1

-----------------------------------------------------------------------------
(* C15 *)

\* The permutations of the positions 1..n.
PermutationsOf(n) == {p \in [1..n -> 1..n] : \A i, j \in 1..n : p[i] = p[j] => i = j}

\* The list s rearranged by the permutation p.
Permuted(s, p) == [k \in 1..Len(s) |-> s[p[k]]]

\* apply_exclusions on the input of the run, under the run's exclusion list
\* rearranged by p.
ExclusionsPermuted(p) ==
    ApplyExclusions(input, [exclusions |-> Permuted(ExclusionList, p)])

\* C15: the rows apply_exclusions returns do not depend on the order of the
\* exclusion list: under every permutation of the list the same rows come
\* back in the same order (the reported counts may differ).
C15_ExclusionOrderIndependent ==
    ExclusionsReturned =>
        \A p \in PermutationsOf(Len(ExclusionList)) : ExclusionsPermuted(p).df = df

\* Two predicates removed one row each, and in the other order the first
\* removes both rows: the reports differ and the rows returned do not.
C15_Witness ==
    /\ ExclusionsReturned
    /\ Len(input.rows) = 2
    /\ Len(out) = 2
    /\ \E p \in PermutationsOf(Len(ExclusionList)) :
          /\ ExclusionsPermuted(p).out # out
          /\ Len(ExclusionsPermuted(p).out) = 1
          /\ ExclusionsPermuted(p).df = df

-----------------------------------------------------------------------------
(* C16 *)

\* The mapping of the run with its master_categories entries rearranged by p.
MappingPermuted(p) ==
    [key \in DOMAIN category_mapping \cup {"master_categories"} |->
        IF key = "master_categories" THEN Permuted(MappingItems, p)
        ELSE category_mapping[key]]

\* C16: for a mapping with unique keys the master_category of every row does
\* not depend on the order of the mapping's entries.
C16_MappingOrderIndependent ==
    CategoryMappingReturned =>
        \A p \in PermutationsOf(Len(MappingItems)) :
            LET r == ApplyCategoryMapping(ArgOf("apply_category_mapping"), MappingPermuted(p))
            IN  /\ Len(r.rows) = Len(df.rows)
                /\ \A i \in 1..Len(df.rows) :
                      r.rows[i]["master_category"] = df.rows[i]["master_category"]

\* Two entries, the value of one being the key of the other, mapped one row
\* each.
C16_Witness ==
    /\ CategoryMappingReturned
    /\ Len(MappingItems) = 2
    /\ MappingItems[1][2] = MappingItems[2][1]
    /\ Len(df.rows) = 2
    /\ df.rows[1]["category"] = MappingItems[1][1]
    /\ df.rows[1]["master_category"] = MappingItems[1][2]
    /\ df.rows[2]["category"] = MappingItems[2][1]
    /\ df.rows[2]["master_category"] = MappingItems[2][2]

-----------------------------------------------------------------------------
(* C17 *)

\* r is the frame a with the column added and nothing else touched.
AddsOnly(a, r, column) ==
    /\ r.columns = a.columns \cup {column}
    /\ Len(r.rows) = Len(a.rows)
    /\ \A i \in 1..Len(a.rows) : \A c \in a.columns \ {column} : r.rows[i][c] = a.rows[i][c]

\* Every row of the frame carries the value in the column.
AllRows(r, column, value) == \A i \in 1..Len(r.rows) : r.rows[i][column] = value

\* The stage's outcome on the frame a when the configuration is absent or
\* holds an empty list or dict.
EmptyExclusionsPassThrough(a) ==
    \A cfg \in {<< >>, [exclusions |-> << >>]} : ApplyExclusions(a, cfg).df = a

EmptyRulesPassThrough(a) ==
    \A cfg \in {<< >>, [custom_rules |-> << >>], [merchant_groups |-> <<GroupPool[1]>>]} :
        ApplyCustomRules(a, cfg).df = a

EmptyMappingGivesDefault(a) ==
    /\ \A cfg \in {<< >>, [master_categories |-> << >>]} :
          LET r == ApplyCategoryMapping(a, cfg)
          IN  AddsOnly(a, r, "master_category") /\ AllRows(r, "master_category", "Uncategorized")
    /\ \A cfg \in {[default_category |-> "Unmapped"],
                   [master_categories |-> << >>, default_category |-> "Unmapped"]} :
          LET r == ApplyCategoryMapping(a, cfg)
          IN  AddsOnly(a, r, "master_category") /\ AllRows(r, "master_category", "Unmapped")

EmptyGroupsGiveMerchant(a) ==
    \A cfg \in {<< >>, [merchant_groups |-> << >>], [custom_rules |-> <<RulePool[1]>>]} :
        LET r == ApplyMerchantGrouping(a, cfg)
        IN  /\ AddsOnly(a, r, "merchant_group")
            /\ \A i \in 1..Len(r.rows) : r.rows[i]["merchant_group"] = a.rows[i]["merchant"]

EmptyAccountGroupsGiveUnknown(a) ==
    \A cfg \in {<< >>, [report_settings |-> << >>],
                [report_settings |-> [account_groups |-> << >>]]} :
        AllRows(AddDerivedFields(a, cfg), "account_group", "unknown")

\* C17: a stage whose configuration is empty or absent passes its input
\* through: apply_exclusions and apply_custom_rules return the input
\* unchanged, apply_category_mapping gives every row the default
\* master_category and changes no existing field, apply_merchant_grouping
\* gives every row its merchant as merchant_group, and the derived field
\* stage gives every row the account_group "unknown".
C17_EmptyConfigIsPassThrough ==
    \A n \in 1..Len(calls) :
        LET stage == calls[n][1]
            a == calls[n][2]
            r == calls[n][3]
        IN  /\ stage = "apply_exclusions" =>
                  /\ EmptyExclusionsPassThrough(a)
                  /\ ExclusionList = << >> => r = a
            /\ stage = "apply_custom_rules" =>
                  /\ EmptyRulesPassThrough(a)
                  /\ RuleList = << >> => r = a
            /\ stage = "apply_category_mapping" =>
                  /\ EmptyMappingGivesDefault(a)
                  /\ MappingItems = << >> =>
                        AddsOnly(a, r, "master_category")
                        /\ AllRows(r, "master_category", DefaultLabel)
            /\ stage = "apply_merchant_grouping" =>
                  /\ EmptyGroupsGiveMerchant(a)
                  /\ GroupItems = << >> =>
                        /\ AddsOnly(a, r, "merchant_group")
                        /\ \A i \in 1..Len(r.rows) :
                              r.rows[i]["merchant_group"] = a.rows[i]["merchant"]
            /\ stage = "add_derived_fields" =>
                  /\ EmptyAccountGroupsGiveUnknown(a)
                  /\ AccountGroupItems = << >> => AllRows(r, "account_group", "unknown")

\* The whole pipeline has run over two rows with every configuration absent.
C17_Witness ==
    /\ pc = "done"
    /\ Len(calls) = Len(StageOrder)
    /\ exclusions = << >> /\ custom_rules = << >>
    /\ category_mapping = << >> /\ report_config = << >>
    /\ Len(df.rows) = 2
    /\ df.rows[1]["merchant_group"] = input.rows[1]["merchant"]
    /\ df.rows[1]["master_category"] = "Uncategorized"
    /\ df.rows[1]["account_group"] = "unknown"

-----------------------------------------------------------------------------
(* C18 *)

RuleConditions(k) == Get(RuleList[k], "conditions", << >>)

\* Rule k of the run with its amount bounds taken out of the conditions.
WithoutAmountBounds(k) ==
    [key \in DOMAIN RuleList[k] |->
        IF key = "conditions"
        THEN [c \in DOMAIN RuleConditions(k) \ {"amount_min", "amount_max"} |->
                 RuleConditions(k)[c]]
        ELSE RuleList[k][key]]

\* The conditions of rule k other than the amount bounds hold for row i.
OtherConditionsHold(k, i) == RuleMask(RowsBeforeRule(k), WithoutAmountBounds(k))[i]

\* C18: amount_min and amount_max are inclusive bounds on the signed amount,
\* and a bound that is absent constrains nothing (it is not read as zero): a
\* rule matches a row exactly when its other conditions hold and the amount
\* is >= amount_min if that is given and <= amount_max if that is given.
C18_AmountBoundsInclusive ==
    CustomRulesReturned =>
        \A k \in 1..Len(RuleList) : \A i \in 1..Len(df.rows) :
            LET amount == ArgOf("apply_custom_rules").rows[i]["amount"]
                c == RuleConditions(k)
            IN  RuleMatched(k, i) <=>
                    /\ OtherConditionsHold(k, i)
                    /\ "amount_min" \in DOMAIN c => amount >= c["amount_min"]
                    /\ "amount_max" \in DOMAIN c => amount <= c["amount_max"]

\* A rule with amount_min = amount_max = 0 matched a row of amount 0 and
\* reported it, then a rule with no conditions matched that row and a row of
\* negative amount.
C18_Witness ==
    /\ CustomRulesReturned
    /\ Len(RuleList) = 2 /\ Len(df.rows) = 2
    /\ RuleConditions(1) = [amount_min |-> 0, amount_max |-> 0]
    /\ input.rows[1]["amount"] = 0 /\ RuleMatched(1, 1) /\ ~RuleMatched(1, 2)
    /\ RuleConditions(2) = << >>
    /\ input.rows[2]["amount"] < 0 /\ RuleMatched(2, 1) /\ RuleMatched(2, 2)
    /\ out[1].count = 1 /\ out[2].count = 2

-----------------------------------------------------------------------------
(* C19 *)

LoaderIds == 1..Len(Loaders)

LoadAttempted == pc # "load_all_data"

\* The folders the load has warned about, in the order of the warnings.
Warnings ==
    LET w == SelectSeq(out, LAMBDA line : line.kind = "warning")
    IN  [j \in 1..Len(w) |-> w[j].folder]

\* The loaders the loop reaches: those before the first malformed folder,
\* that one included.
Reached(k) == \A j \in 1..(k - 1) : folders[j] # "malformed"

\* The folders without CSV files that the loop reaches, in loader order.
SkippedFolders ==
    LET s == SelectSeq([k \in LoaderIds |-> k],
                       LAMBDA k : folders[k] = "no_csv" /\ Reached(k))
    IN  [j \in 1..Len(s) |-> Loaders[s[j]].folder]

\* No dataset has been returned and no stage has run.
NothingRan == df = NoFrame /\ input = NoFrame /\ calls = << >> /\ saved = << >>

\* C19 as stated: a source without input files or folder is skipped with a
\* warning and the run goes on with the sources that loaded; the run aborts
\* if and only if every source fails to load, and then no dataset is
\* returned and no stage runs.
C19_AbortsIffEverySourceFails ==
    LoadAttempted =>
        /\ Warnings = SkippedFolders
        /\ pc = "failed" <=> \A k \in LoaderIds : folders[k] # "csv"
        /\ pc = "failed" => NothingRan

\* C19 amended: a source without input files or folder is skipped with a
\* warning and the load goes on with the next source.  The run aborts if and
\* only if every source is without input files, or some source has input
\* files that do not load (a missing column, a date or an amount that does
\* not parse): that error is not caught, whatever the other sources hold.
\* When the run aborts no dataset is returned and no stage runs; otherwise
\* the dataset holds rows of the sources that loaded only.
C19_AbortsWithoutDataOrOnMalformed ==
    LoadAttempted =>
        /\ Warnings = SkippedFolders
        /\ pc = "failed" <=>
              \/ \A k \in LoaderIds : folders[k] = "no_csv"
              \/ \E k \in LoaderIds : folders[k] = "malformed"
        /\ pc = "failed" => NothingRan /\ out[Len(out)].kind = "error"
        /\ pc # "failed" =>
              \A i \in 1..Len(input.rows) :
                  \E k \in LoaderIds :
                      folders[k] = "csv" /\ input.rows[i]["source"] = Loaders[k].source

\* Two folders had no CSV files and two loaded: the run warned twice, went
\* through every stage and returned a row.
C19_Witness ==
    /\ pc = "done"
    /\ folders = <<"no_csv", "csv", "csv", "no_csv">>
    /\ Warnings = <<"chase_checking", "nikita_apple_card">>
    /\ Len(calls) = Len(StageOrder)
    /\ Len(df.rows) >= 1

-----------------------------------------------------------------------------
(* C20 *)

\* The texts the exclusions of the run search the merchant for.
ConfiguredTexts ==
    {ExclusionList[k]["description_contains"] :
        k \in {j \in 1..Len(ExclusionList) : "description_contains" \in DOMAIN ExclusionList[j]}}

\* C20: in the exclusion stage and in the custom rule stage alike, a
\* description_contains condition holds for a row exactly when the row's
\* merchant is present and contains the configured text as a
\* case-insensitive literal substring; on a missing merchant it is false.
C20_DescriptionContainsIsLiteral ==
    ExclusionsReturned =>
        \A text \in ConfiguredTexts : \A i \in 1..Len(input.rows) :
            LET merchant == input.rows[i]["merchant"]
                literal == merchant # NaN /\ LiteralContains(merchant, text)
                only == [description_contains |-> text]
            IN  /\ ExclusionMask(input.rows, only)[i] <=> literal
                /\ RuleMask(input.rows, [conditions |-> only])[i] <=> literal

-----------------------------------------------------------------------------
(* C21 *)

\* The predicate's mask holds for the row, taken on its own.
PredicateHolds(row, exclusion) == ExclusionMask(<<row>>, exclusion)[1]

\* The dataset as predicate k of the run finds it: the input rows less the
\* matches of the predicates 1..k-1, each taken on what its predecessors left.
RECURSIVE ReducedBefore(_)
ReducedBefore(k) ==
    IF k = 1 THEN input.rows
    ELSE SelectSeq(ReducedBefore(k - 1),
                   LAMBDA row : ~PredicateHolds(row, ExclusionList[k - 1]))

\* The rows predicate k removes: its matches in the reduced dataset.
RemovedBy(k) ==
    SelectSeq(ReducedBefore(k), LAMBDA row : PredicateHolds(row, ExclusionList[k]))

\* The predicates of the run that removed at least one row, in list order.
PredicatesThatRemoved ==
    SelectSeq([k \in 1..Len(ExclusionList) |-> k], LAMBDA k : Len(RemovedBy(k)) > 0)

ExclusionReport(k) ==
    [kind |-> "excluded", count |-> Len(RemovedBy(k)),
     reason |-> Get(ExclusionList[k], "reason", "No reason provided")]

\* C21: each exclusion predicate is evaluated on the dataset as reduced by
\* the predicates before it, and its matches are gone before the next one
\* is evaluated; it reports the number of rows it removed with its reason,
\* and a predicate that removed no row reports nothing.
C21_ExclusionsSequentialAndReported ==
    ExclusionsReturned =>
        /\ df.rows = ReducedBefore(Len(ExclusionList) + 1)
        /\ out = [j \in 1..Len(PredicatesThatRemoved) |->
                     ExclusionReport(PredicatesThatRemoved[j])]
        /\ \A j \in 1..Len(out) : out[j].count >= 1

\* Of two predicates that both match the first row, the first removed it
\* and the second, finding it gone, removed nothing and stayed silent; the
\* second row was kept.
C21_Witness ==
    /\ ExclusionsReturned
    /\ Len(ExclusionList) = 2 /\ Len(input.rows) = 2
    /\ PredicateHolds(input.rows[1], ExclusionList[1])
    /\ PredicateHolds(input.rows[1], ExclusionList[2])
    /\ ExclusionList[1] # ExclusionList[2]
    /\ PredicatesThatRemoved = <<1>>
    /\ out = <<ExclusionReport(1)>> /\ out[1].count = 1
    /\ df.rows = <<input.rows[2]>>

-----------------------------------------------------------------------------
(* C22 *)

\* The rules before rule k that matched row i and whose action sets a category.
WritersBefore(k, i) == {j \in CategoryWriters(i) : j < k}

\* The category of row i as rule k finds it: what the last such rule wrote,
\* and the input category when there is none.
CategoryBefore(k, i) ==
    IF WritersBefore(k, i) = {} THEN ArgOf("apply_custom_rules").rows[i]["category"]
    ELSE RuleAction(Max(WritersBefore(k, i)))["category"]

\* Rule k of the run with its category condition taken out.
WithoutCategoryCondition(k) ==
    [key \in DOMAIN RuleList[k] |->
        IF key = "conditions"
        THEN [c \in DOMAIN RuleConditions(k) \ {"category"} |-> RuleConditions(k)[c]]
        ELSE RuleList[k][key]]

\* Rule k matches row i under the chained reading: its other conditions hold
\* and the category rule k finds on the row is the one it asks for.
ChainedMatch(k, i) ==
    /\ RuleMask(ArgOf("apply_custom_rules").rows, WithoutCategoryCondition(k))[i]
    /\ "category" \in DOMAIN RuleConditions(k)
          => SeriesEq(CategoryBefore(k, i), RuleConditions(k)["category"])

\* C22: within one run of apply_custom_rules the category condition of the
\* k-th rule is evaluated on the categories as the rules 1..k-1 have left
\* them, not on the input categories; the categories returned and the
\* counts reported are those of the chained evaluation.
C22_CategoryConditionSeesEarlierRules ==
    CustomRulesReturned =>
        /\ \A k \in 1..Len(RuleList) : \A i \in 1..Len(df.rows) :
              RuleMatched(k, i) <=> ChainedMatch(k, i)
        /\ \A i \in 1..Len(df.rows) :
              df.rows[i]["category"] = CategoryBefore(Len(RuleList) + 1, i)
        /\ out = [j \in 1..Len(RulesThatMatched) |->
                     [kind |-> "applied",
                      name |-> Get(RuleList[RulesThatMatched[j]], "name", "Unknown"),
                      count |-> Cardinality({i \in 1..Len(df.rows) :
                                                ChainedMatch(RulesThatMatched[j], i)})]]

\* The second rule asks for the category the first rule writes: it matched
\* the first row, whose input category was another one, and rewrote it.
C22_Witness ==
    /\ CustomRulesReturned
    /\ Len(RuleList) = 2 /\ Len(df.rows) >= 1
    /\ "category" \in DOMAIN RuleConditions(2)
    /\ "category" \in DOMAIN RuleAction(1) /\ "category" \in DOMAIN RuleAction(2)
    /\ RuleConditions(2)["category"] = RuleAction(1)["category"]
    /\ input.rows[1]["category"] # RuleConditions(2)["category"]
    /\ RuleMatched(1, 1) /\ RuleMatched(2, 1)
    /\ df.rows[1]["category"] = RuleAction(2)["category"]
    /\ Len(out) = 2

-----------------------------------------------------------------------------
(* C23 *)

\* Some exclusion predicate of the run holds for the row.
SomePredicateHolds(row) ==
    \E k \in 1..Len(ExclusionList) : PredicateHolds(row, ExclusionList[k])

\* The input row at position i is among the rows of the frame.
Present(i, d) == \E j \in 1..Len(d.rows) : d.rows[j]["row_id"] = input.rows[i]["row_id"]

\* C23: the exclusions run before the custom rules, so an exclusion
\* predicate's category condition reads the category the loader supplied:
\* once both stages have run, a row is in the pipeline's frame exactly when
\* no predicate holds for it as loaded, whatever the custom rules wrote.
C23_ExclusionSeesLoaderCategory ==
    Ran("apply_exclusions") /\ Ran("apply_custom_rules") =>
        /\ ArgOf("apply_exclusions") = input
        /\ \A i \in 1..Len(input.rows) :
              Present(i, df) <=> ~SomePredicateHolds(input.rows[i])

\* The pipeline has finished.  A custom rule rewrote the first row's
\* category to one an exclusion predicate names, and the row is in the
\* output although the predicate holds for it as it is now; the second row
\* was excluded on its loaded category by a predicate that would not hold
\* for it after the same rule, which matches it as loaded, had rewritten it.
C23_Witness ==
    /\ pc = "done"
    /\ Len(input.rows) = 2 /\ Len(df.rows) = 1
    /\ df.rows[1]["row_id"] = 1
    /\ df.rows[1]["category"] # input.rows[1]["category"]
    /\ SomePredicateHolds(df.rows[1])
    /\ ~SomePredicateHolds(input.rows[1])
    /\ Len(ExclusionList) = 2 /\ Len(RuleList) >= 1
    /\ PredicateHolds(input.rows[2], ExclusionList[2])
    /\ RuleMask(<<input.rows[2]>>, RuleList[1])[1]
    /\ "category" \in DOMAIN RuleAction(1)
    /\ ~PredicateHolds([input.rows[2] EXCEPT !["category"] = RuleAction(1)["category"]],
                       ExclusionList[2])

-----------------------------------------------------------------------------
(* C24 *)

\* The predicates of the run that hold for the input row at position i.
HoldingPredicates(i) ==
    {k \in 1..Len(ExclusionList) : PredicateHolds(input.rows[i], ExclusionList[k])}

Min(S) == CHOOSE m \in S : \A n \in S : m <= n

\* The input rows predicate k is the first, in list order, to hold for.
FirstMatchedBy(k) ==
    {i \in 1..Len(input.rows) : HoldingPredicates(i) # {} /\ Min(HoldingPredicates(i)) = k}

\* The predicates that are the first match of some row, in list order.
FirstMatchers ==
    SelectSeq([k \in 1..Len(ExclusionList) |-> k], LAMBDA k : FirstMatchedBy(k) # {})

\* The counts reported, in order, and their sum.
ReportedCounts == [j \in 1..Len(out) |-> out[j].count]

RECURSIVE SumFrom(_, _)
SumFrom(s, j) == IF j > Len(s) THEN 0 ELSE s[j] + SumFrom(s, j + 1)

\* C24: the counts one run of apply_exclusions reports are each strictly
\* positive and add up to the number of input rows less the number of
\* output rows; a removed row is counted once, by the first predicate in
\* list order that matches it.
C24_CountsPartitionRemovedRows ==
    ExclusionsReturned =>
        /\ \A j \in 1..Len(out) : out[j].count > 0
        /\ SumFrom(ReportedCounts, 1) = Len(input.rows) - Len(df.rows)
        /\ \A i \in 1..Len(input.rows) : ~Present(i, df) <=> HoldingPredicates(i) # {}
        /\ ReportedCounts =
              [j \in 1..Len(FirstMatchers) |-> Cardinality(FirstMatchedBy(FirstMatchers[j]))]

\* Both rows match the second predicate and the first row matches the first
\* one too: the first predicate counted one row, the second counted the
\* other row only, and both rows are gone.
C24_Witness ==
    /\ ExclusionsReturned
    /\ Len(ExclusionList) = 2 /\ Len(input.rows) = 2
    /\ HoldingPredicates(1) = {1, 2}
    /\ HoldingPredicates(2) = {2}
    /\ ReportedCounts = <<1, 1>>
    /\ df.rows = << >>

=============================================================================
